---- MODULE Spec2Model ----
(***************************************************************************)
(* Model of the data layer of the Juju dashboard (src/utils/db.py) and of  *)
(* the FastAPI routes that call it (src/main.py).                          *)
(*                                                                         *)
(* The store holds two tables, juju_messages and juju_evaluations.  Every  *)
(* data-layer function is one action: it issues its store queries in the   *)
(* order of the code (each query may fail, which raises), does its pandas  *)
(* work and leaves its outcome in `ret` and the queries it issued in       *)
(* `qlog`.                                                                 *)
(*                                                                         *)
(* Representation.  A nullable value is None (<<>>) or Some(x) (<<x>>).    *)
(* Time is counted in ticks, TicksPerDay ticks to a calendar day.          *)
(* faithfulness scores and thresholds are in tenths (7 is 0.7).            *)
(* avg_faithfulness is in thousandths, hallucination_rate in tenths of a   *)
(* percent, so that round(x, 3) and round(x, 1) are integer roundings.     *)
(***************************************************************************)
EXTENDS Integers, Sequences, FiniteSets

VARIABLES
    messages,     \* table juju_messages, in insertion order
    evaluations,  \* table juju_evaluations, in insertion order
    now,          \* the UTC clock, in ticks
    op,           \* the function called last ("none" before any call)
    args,         \* its arguments
    ret,          \* its outcome: [status |-> "ok" | "raised", value |-> ...]
    qlog,         \* the store queries it issued, in order
    clients       \* the number of store clients it created (get_client)

vars == <<messages, evaluations, now, op, args, ret, qlog, clients>>

(***************************************************************************)
(* Bounds of the model.                                                    *)
(***************************************************************************)
MaxMsgs == 2
MaxEvals == 3
TicksPerDay == 2

(***************************************************************************)
(* Nullable values and pandas scalars.                                     *)
(***************************************************************************)
None == <<>>
Some(x) == <<x>>
IsNull(o) == o = <<>>
Val(o) == o[1]
NaN == <<>>

\* Python truthiness of an Optional[datetime] argument: None is falsy, a
\* datetime is truthy.
Given(o) == o # None

\* x == True and x == False on a column that may hold None.
EqTrue(o) == o = Some(TRUE)
EqFalse(o) == o = Some(FALSE)

RECURSIVE SumSeq(_)
SumSeq(s) == IF s = <<>> THEN 0 ELSE Head(s) + SumSeq(Tail(s))

RECURSIVE Flatten(_)
Flatten(ss) == IF ss = <<>> THEN <<>> ELSE Head(ss) \o Flatten(Tail(ss))

Range(s) == {s[i] : i \in DOMAIN s}

\* Python's round(): to the nearest integer, a tie to the even one.  The
\* value rounded is num / den with den > 0 and num >= 0.
RoundHalfEven(num, den) ==
    LET q == num \div den
        r == num % den
    IN IF 2 * r < den THEN q
       ELSE IF 2 * r > den THEN q + 1
       ELSE IF q % 2 = 0 THEN q ELSE q + 1

(***************************************************************************)
(* The store.  A message is [id, created_at, response_time_ms]; an         *)
(* evaluation is [message_id, faithfulness_score, hallucination_detected,  *)
(* capability_hallucination, citation_accurate].  The other columns are    *)
(* carried through unread by the functions modelled here.                  *)
(***************************************************************************)
Times == {150, 190, 200}
ResponseTimes == {None, Some(2), Some(3)}
Scores == {None, Some(0), Some(7)}
Bools == {Some(TRUE), Some(FALSE)}
NullableBools == {None, Some(TRUE), Some(FALSE)}

\* All sequences over S of length at most n.
SeqsUpTo(S, n) == UNION {[1..k -> S] : k \in 0..n}

\* The ids of a table of n messages are 1..n; created_at is set at insertion,
\* so it does not decrease along the table.
MessageTables(n, times, rts) ==
    {t \in SeqsUpTo([created_at : times, response_time_ms : rts], n) :
        \A i \in 1..(Len(t) - 1) : t[i].created_at <= t[i + 1].created_at}

WithIds(t) ==
    [i \in DOMAIN t |-> [id |-> i, created_at |-> t[i].created_at,
                         response_time_ms |-> t[i].response_time_ms]]

EvaluationRows(ids, scores, hds, chs, cas) ==
    [message_id : ids, faithfulness_score : scores, hallucination_detected : hds,
     capability_hallucination : chs, citation_accurate : cas]

\* A table is a bag of rows: one arrangement stands for all of them, the one
\* with the rows' keys non-decreasing.
NumCode(o) == IF IsNull(o) THEN 0 ELSE Val(o) + 1
BoolCode(o) == IF IsNull(o) THEN 0 ELSE IF o = Some(TRUE) THEN 1 ELSE 2
EvalKey(e) ==
    (((e.message_id * 16 + NumCode(e.faithfulness_score)) * 3
        + BoolCode(e.hallucination_detected)) * 3
        + BoolCode(e.capability_hallucination)) * 3
        + BoolCode(e.citation_accurate)
EvaluationTables(rows, n) ==
    {t \in SeqsUpTo(rows, n) :
        \A i \in 1..(Len(t) - 1) : EvalKey(t[i]) <= EvalKey(t[i + 1])}

\* An evaluation that trips none of the flag rules.
CleanEval(id) ==
    [message_id |-> id, faithfulness_score |-> None,
     hallucination_detected |-> Some(FALSE),
     capability_hallucination |-> Some(FALSE), citation_accurate |-> Some(TRUE)]
Differences(e) ==
    LET c == CleanEval(e.message_id)
    IN Cardinality({f \in DOMAIN e : e[f] # c[f]})
\* Every combination of the columns the flag rules read.
FlagRows(ids) == EvaluationRows(ids, Scores, NullableBools, Bools, NullableBools)
\* The clean evaluation and those that differ from it in the score alone or
\* in hallucination_detected alone.
CoreFlagRows(ids) ==
    {e \in EvaluationRows(ids, Scores, Bools, {Some(FALSE)}, {Some(TRUE)}) :
        Differences(e) <= 1}

(***************************************************************************)
(* Store queries (the supabase query builder).                             *)
(***************************************************************************)
\* .gte("created_at", start) when start is given, .lte("created_at", end)
\* when end is given
InRange(m, start_date, end_date) ==
    /\ (Given(start_date) => m.created_at >= Val(start_date))
    /\ (Given(end_date) => m.created_at <= Val(end_date))

\* First n elements of s.
Take(s, n) == SubSeq(s, 1, IF n < Len(s) THEN n ELSE Len(s))

\* Mutant of OrderDesc: the .order() call left out.
OrderAny(S) ==
    {p \in [1..Cardinality(S) -> S] : \A i, j \in DOMAIN p : i # j => p[i] # p[j]}

\* .order("created_at", desc=True): every arrangement of the rows S with
\* created_at non-increasing (the store breaks ties as it likes).
OrderDesc(S) ==
    {p \in [1..Cardinality(S) -> S] :
        /\ \A i, j \in DOMAIN p : i # j => p[i] # p[j]
        /\ \A i \in 1..(Cardinality(S) - 1) : p[i].created_at >= p[i + 1].created_at}

\* One entry of qlog: the table queried, whether the query succeeded, and
\* the list given to .in_() (None when the query has no .in_()).
Query(table, ok, ids) == [table |-> table, ok |-> ok, ids |-> ids]

Ok(value) == [status |-> "ok", value |-> value]
Raised == [status |-> "raised", value |-> <<>>]
Outcome(r, q) == [ret |-> r, qlog |-> q]

(***************************************************************************)
(* pandas: DataFrame.merge of a message frame with an evaluation frame.    *)
(***************************************************************************)
\* A matched row: every column of both frames.  message_id is a column that
\* a left merge may leave NaN, so it is held as Some(id).
JoinRow(m, e) ==
    [f \in DOMAIN m \cup DOMAIN e |->
        IF f \in DOMAIN m THEN m[f]
        ELSE IF f = "message_id" THEN Some(e.message_id)
        ELSE e[f]]

\* A left row without a match: the columns of the right frame are NaN.
NoEvalRow(m, evals_df) ==
    LET columns == IF evals_df = <<>> THEN {} ELSE DOMAIN evals_df[1]
    IN [f \in DOMAIN m \cup columns |-> IF f \in DOMAIN m THEN m[f] ELSE NaN]

Matches(m, evals_df) == SelectSeq(evals_df, LAMBDA e : e.message_id = m.id)

\* how="inner": the rows follow the left frame's order, each left row once
\* per matching right row, in the right frame's order.
MergeInner(messages_df, evals_df) ==
    Flatten([i \in DOMAIN messages_df |->
        LET ms == Matches(messages_df[i], evals_df)
        IN [k \in DOMAIN ms |-> JoinRow(messages_df[i], ms[k])]])

\* how="left": as inner, and a left row without a match is kept once.
MergeLeft(messages_df, evals_df) ==
    Flatten([i \in DOMAIN messages_df |->
        LET ms == Matches(messages_df[i], evals_df)
        IN IF ms = <<>> THEN <<NoEvalRow(messages_df[i], evals_df)>>
           ELSE [k \in DOMAIN ms |-> JoinRow(messages_df[i], ms[k])]])

(***************************************************************************)
(* get_flagged_messages (src/utils/db.py).                                 *)
(***************************************************************************)
\* fillna(1), in tenths
FillValue == 10

FillNa(o, v) == IF IsNull(o) THEN v ELSE Val(o)

\* Mutant of FlagMask: <= for < in the score test.
FlagMaskAtMost(e, faithfulness_threshold) ==
    \/ EqTrue(e.hallucination_detected)
    \/ EqTrue(e.capability_hallucination)
    \/ FillNa(e.faithfulness_score, FillValue) <= faithfulness_threshold
    \/ EqFalse(e.citation_accurate)

\* The mask of lines 144-149 on one evaluation row.
FlagMask(e, faithfulness_threshold) ==
    \/ EqTrue(e.hallucination_detected)
    \/ EqTrue(e.capability_hallucination)
    \/ FillNa(e.faithfulness_score, FillValue) < faithfulness_threshold
    \/ EqFalse(e.citation_accurate)

FlaggedEvals(evals_df, faithfulness_threshold) ==
    SelectSeq(evals_df, LAMBDA e : FlagMask(e, faithfulness_threshold))

MessageIds(df) == [i \in DOMAIN df |-> df[i].message_id]

\* Mutant of FlaggedMessageFetches: the .limit() call left out.
FlaggedMessageFetchesUnlimited(message_ids, limit, start_date, end_date) ==
    OrderDesc({m \in Range(messages) :
        m.id \in Range(message_ids) /\ InRange(m, start_date, end_date)})

\* The message query of lines 157-165: id in message_ids, the date range,
\* newest first, at most `limit` rows.
FlaggedMessageFetches(message_ids, limit, start_date, end_date) ==
    {Take(p, limit) : p \in OrderDesc(
        {m \in Range(messages) :
            m.id \in Range(message_ids) /\ InRange(m, start_date, end_date)})}

\* Mutant of FlaggedJoin: the messages of the range fetched whatever their
\* id and left-joined, as get_messages_with_evals does.
FlaggedJoinLeft(flagged_evals, limit, start_date, end_date) ==
    {MergeLeft(Take(p, limit), flagged_evals) :
        p \in OrderDesc({m \in Range(messages) : InRange(m, start_date, end_date)})}

\* Lines 155-172: the frames the message fetch and the merge can give.
FlaggedJoin(flagged_evals, limit, start_date, end_date) ==
    {MergeInner(messages_df, flagged_evals) :
        messages_df \in FlaggedMessageFetches(MessageIds(flagged_evals), limit,
                                              start_date, end_date)}

\* Mutant of FlaggedOutcomes: the message query issued also after the
\* evaluation query failed.
FlaggedOutcomesNoStop(limit, faithfulness_threshold, start_date, end_date, fail) ==
    LET evals_df == evaluations
        flagged_evals == FlaggedEvals(evals_df, faithfulness_threshold)
        q1(ok) == Query("juju_evaluations", ok, None)
        q2(ok) == Query("juju_messages", ok, Some(MessageIds(flagged_evals)))
    IN  IF fail = 1 THEN {Outcome(Raised, <<q1(FALSE), q2(TRUE)>>)}
        ELSE IF evals_df = <<>> THEN {Outcome(Ok(<<>>), <<q1(TRUE)>>)}
        ELSE IF flagged_evals = <<>> THEN {Outcome(Ok(<<>>), <<q1(TRUE)>>)}
        ELSE IF fail = 2 THEN {Outcome(Raised, <<q1(TRUE), q2(FALSE)>>)}
        ELSE {Outcome(Ok(merged), <<q1(TRUE), q2(TRUE)>>) :
                 merged \in FlaggedJoin(flagged_evals, limit, start_date, end_date)}

\* Every outcome of one call; `fail` is the number of the store query that
\* fails (0: none does).
FlaggedOutcomes(limit, faithfulness_threshold, start_date, end_date, fail) ==
    LET evals_df == evaluations
        flagged_evals == FlaggedEvals(evals_df, faithfulness_threshold)
        q1(ok) == Query("juju_evaluations", ok, None)
        q2(ok) == Query("juju_messages", ok, Some(MessageIds(flagged_evals)))
    IN  IF fail = 1 THEN {Outcome(Raised, <<q1(FALSE)>>)}
        ELSE IF evals_df = <<>> THEN {Outcome(Ok(<<>>), <<q1(TRUE)>>)}
        ELSE IF flagged_evals = <<>> THEN {Outcome(Ok(<<>>), <<q1(TRUE)>>)}
        ELSE IF fail = 2 THEN {Outcome(Raised, <<q1(TRUE), q2(FALSE)>>)}
        ELSE {Outcome(Ok(merged), <<q1(TRUE), q2(TRUE)>>) :
                 merged \in FlaggedJoin(flagged_evals, limit, start_date, end_date)}

\* Arguments the calls are tried with.
Limits == {1, 100}
Thresholds == {0, 7, 15}
Dates == {None, Some(190)}
Fails == 0..2

get_flagged_messages ==
    /\ op = "none"
    /\ \E limit \in Limits, faithfulness_threshold \in Thresholds,
          start_date \in Dates, end_date \in Dates, fail \in Fails :
         \E o \in FlaggedOutcomes(limit, faithfulness_threshold,
                                  start_date, end_date, fail) :
           /\ op' = "get_flagged_messages"
           /\ args' = [limit |-> limit,
                       faithfulness_threshold |-> faithfulness_threshold,
                       start_date |-> start_date, end_date |-> end_date]
           /\ ret' = o.ret
           /\ qlog' = o.qlog
           /\ clients' = 1
           /\ UNCHANGED <<messages, evaluations, now>>

(***************************************************************************)
(* The /flagged route (src/main.py).                                       *)
(***************************************************************************)
Days7 == 7
Days30 == 30
Days90 == 90
PageLimit == 100
\* Query(0.7, ge=0, le=1), in tenths
ThresholdMin == 0
ThresholdMax == 10
\* the 1 of `faithfulness_score or 1`, in tenths
OrDefault == 10

RangeStrs == {"7d", "30d", "90d", "all"}

\* The start of the range; the end is always None.
parse_date_range(range_str) ==
    IF range_str = "7d" THEN Some(now - Days7 * TicksPerDay)
    ELSE IF range_str = "30d" THEN Some(now - Days30 * TicksPerDay)
    ELSE IF range_str = "90d" THEN Some(now - Days90 * TicksPerDay)
    ELSE None

\* The dtype of faithfulness_score is fixed when the evaluations are loaded
\* (db.py line 138): float64 if some row has a number, object if none has.
\* df.to_dict("records") then gives a missing score as NaN from a float
\* column and as None from an object column.
ScoreColumnIsObject ==
    \A i \in DOMAIN evaluations : IsNull(evaluations[i].faithfulness_score)

\* (m.get("faithfulness_score") or 1) < threshold: NaN is truthy and compares
\* False; None and 0.0 are falsy and are replaced by 1.
LowFaithTest(m, threshold, column_is_object) ==
    IF IsNull(m.faithfulness_score)
    THEN column_is_object /\ OrDefault < threshold
    ELSE IF Val(m.faithfulness_score) = 0 THEN OrDefault < threshold
    ELSE Val(m.faithfulness_score) < threshold

\* Lines 182-191: the template context computed from the flagged frame.
FlaggedContext(df, threshold) ==
    [flagged |-> df,
     halluc_count |->
        Len(SelectSeq(df, LAMBDA m : EqTrue(m.hallucination_detected))),
     cap_halluc_count |->
        Len(SelectSeq(df, LAMBDA m : EqTrue(m.capability_hallucination))),
     low_faith_count |->
        Len(SelectSeq(df, LAMBDA m :
                LowFaithTest(m, threshold, ScoreColumnIsObject))),
     bad_citation_count |->
        Len(SelectSeq(df, LAMBDA m : EqFalse(m.citation_accurate)))]

\* Lines 193-195: what the except branch renders.
EmptyFlaggedContext ==
    [flagged |-> <<>>, halluc_count |-> 0, cap_halluc_count |-> 0,
     low_faith_count |-> 0, bad_citation_count |-> 0]

Rejected == [status |-> "rejected", value |-> <<>>]

FlaggedPageOutcomes(range_str, threshold, fail) ==
    IF threshold < ThresholdMin \/ threshold > ThresholdMax
    THEN {Outcome(Rejected, <<>>)}
    ELSE {Outcome(Ok(IF o.ret.status = "raised" THEN EmptyFlaggedContext
                     ELSE FlaggedContext(o.ret.value, threshold)),
                  o.qlog) :
            o \in FlaggedOutcomes(PageLimit, threshold,
                                  parse_date_range(range_str), None, fail)}

flagged_page ==
    /\ op = "none"
    /\ \E range_str \in RangeStrs, threshold \in Thresholds, fail \in Fails :
         \E o \in FlaggedPageOutcomes(range_str, threshold, fail) :
           /\ op' = "flagged_page"
           /\ args' = [range |-> range_str, threshold |-> threshold]
           /\ ret' = o.ret
           /\ qlog' = o.qlog
           /\ clients' = (IF o.ret.status = "rejected" THEN 0 ELSE 1)
           /\ UNCHANGED <<messages, evaluations, now>>

(***************************************************************************)
(* get_metrics_summary (src/utils/db.py).                                  *)
(***************************************************************************)
\* pd.to_datetime(created_at).dt.date and datetime.utcnow().date()
DateOf(t) == t \div TicksPerDay

\* The non-null values of a column, in row order.
Present(column) == SelectSeq(column, LAMBDA o : ~IsNull(o))
Values(column) == [i \in DOMAIN Present(column) |-> Val(Present(column)[i])]

\* Series.mean(): the nulls are skipped, and the mean of nothing is NaN.  The
\* result is the fraction [num, den].
Mean(column) ==
    IF Values(column) = <<>> THEN NaN
    ELSE Some([num |-> SumSeq(Values(column)), den |-> Len(Values(column))])

\* round(x or 0, ndigits) of a mean x, the result counted in units of
\* 1/scale of the column's unit: NaN is truthy, so it stays NaN.
RoundOrZero(mean, scale) ==
    IF IsNull(mean) THEN NaN
    ELSE Some(RoundHalfEven(scale * Val(mean).num, Val(mean).den))

\* The message query of lines 185-191: the date range, no order.
SummaryMessageFetch(start_date, end_date) ==
    SelectSeq(messages, LAMBDA m : InRange(m, start_date, end_date))

\* .in_("message_id", message_ids)
EvaluationFetch(message_ids) ==
    SelectSeq(evaluations, LAMBDA e : e.message_id \in Range(message_ids))

Column(df, f) == [i \in DOMAIN df |-> df[i][f]]

\* Lines 195-201.
ZeroSummary ==
    [total_messages |-> 0, avg_response_time_ms |-> Some(0),
     avg_faithfulness |-> Some(0), hallucination_rate |-> Some(0),
     messages_today |-> 0]

\* Mutant of TotalMessages: the rows of the join counted, as
\* get_daily_metrics counts them.
TotalMessagesJoined(messages_df, evals_df) == Len(MergeLeft(messages_df, evals_df))

\* Line 209.
TotalMessages(messages_df, evals_df) == Len(messages_df)

\* Mutant of SumBool: a null counted as True.
SumBoolNotFalse(column) == Len(SelectSeq(column, LAMBDA o : ~EqFalse(o)))

\* Series.sum() of a boolean column: the nulls are skipped, True counts 1.
SumBool(column) == Len(SelectSeq(column, EqTrue))

\* Mutant of EvalMetrics: the test of evals_df.empty left out.
EvalMetricsUnguarded(evals_df) ==
    [avg_faithfulness |->
        RoundOrZero(Mean(Column(evals_df, "faithfulness_score")), 100),
     hallucination_rate |-> NaN]

\* Lines 220-227 and the rounding of lines 232-233: avg_faithfulness in
\* thousandths, hallucination_rate in tenths of a percent.
EvalMetrics(evals_df) ==
    IF evals_df # <<>>
    THEN LET avg_faithfulness == Mean(Column(evals_df, "faithfulness_score"))
             hallucination_count ==
                 SumBool(Column(evals_df, "hallucination_detected"))
         IN [avg_faithfulness |-> RoundOrZero(avg_faithfulness, 100),
             hallucination_rate |->
                 Some(RoundHalfEven(1000 * hallucination_count, Len(evals_df)))]
    ELSE [avg_faithfulness |-> Some(0), hallucination_rate |-> Some(0)]

\* Lines 208-235.  avg_response_time_ms is in ms.
SummaryOf(messages_df, evals_df) ==
    LET avg_response_time == Mean(Column(messages_df, "response_time_ms"))
        today == DateOf(now)
        messages_today ==
            Len(SelectSeq(messages_df, LAMBDA m : DateOf(m.created_at) = today))
    IN [total_messages |-> TotalMessages(messages_df, evals_df),
        avg_response_time_ms |-> RoundOrZero(avg_response_time, 1),
        avg_faithfulness |-> EvalMetrics(evals_df).avg_faithfulness,
        hallucination_rate |-> EvalMetrics(evals_df).hallucination_rate,
        messages_today |-> messages_today]

\* Mutant of SummaryOutcomes: the early return of lines 194-201 left out.
SummaryOutcomesNoEarlyReturn(start_date, end_date, fail) ==
    LET messages_df == SummaryMessageFetch(start_date, end_date)
        message_ids == [i \in DOMAIN messages_df |-> messages_df[i].id]
        evals_df == EvaluationFetch(message_ids)
        q1(ok) == Query("juju_messages", ok, None)
        q2(ok) == Query("juju_evaluations", ok, Some(message_ids))
    IN  IF fail = 1 THEN {Outcome(Raised, <<q1(FALSE)>>)}
        ELSE IF fail = 2 THEN {Outcome(Raised, <<q1(TRUE), q2(FALSE)>>)}
        ELSE {Outcome(Ok(SummaryOf(messages_df, evals_df)), <<q1(TRUE), q2(TRUE)>>)}

SummaryOutcomes(start_date, end_date, fail) ==
    LET messages_df == SummaryMessageFetch(start_date, end_date)
        message_ids == [i \in DOMAIN messages_df |-> messages_df[i].id]
        evals_df == EvaluationFetch(message_ids)
        q1(ok) == Query("juju_messages", ok, None)
        q2(ok) == Query("juju_evaluations", ok, Some(message_ids))
    IN  IF fail = 1 THEN {Outcome(Raised, <<q1(FALSE)>>)}
        ELSE IF messages_df = <<>> THEN {Outcome(Ok(ZeroSummary), <<q1(TRUE)>>)}
        ELSE IF fail = 2 THEN {Outcome(Raised, <<q1(TRUE), q2(FALSE)>>)}
        ELSE {Outcome(Ok(SummaryOf(messages_df, evals_df)), <<q1(TRUE), q2(TRUE)>>)}

get_metrics_summary ==
    /\ op = "none"
    /\ \E start_date \in Dates, end_date \in Dates, fail \in Fails :
         \E o \in SummaryOutcomes(start_date, end_date, fail) :
           /\ op' = "get_metrics_summary"
           /\ args' = [start_date |-> start_date, end_date |-> end_date]
           /\ ret' = o.ret
           /\ qlog' = o.qlog
           /\ clients' = 1
           /\ UNCHANGED <<messages, evaluations, now>>

(***************************************************************************)
(* get_daily_metrics (src/utils/db.py).                                    *)
(***************************************************************************)
\* Lines 246-247: the start of the range when start_date is not given.
DailyStart(days, start_date) ==
    IF Given(start_date) THEN start_date ELSE Some(now - days * TicksPerDay)

\* The message query of lines 251-258: .gte() always, .lte() when end_date
\* is given, no order.
DailyMessageFetch(days, start_date, end_date) ==
    SelectSeq(messages,
              LAMBDA m : InRange(m, DailyStart(days, start_date), end_date))

\* Lines 279-281: a row of the frame built when no evaluation was fetched.
DailyNoEvalsRow(m) ==
    [id |-> m.id, created_at |-> m.created_at,
     response_time_ms |-> m.response_time_ms,
     faithfulness_score |-> None, hallucination_detected |-> Some(FALSE)]

\* Lines 276-281.  The column msg_id of the code is the field id here.
DailyMerged(messages_df, evals_df) ==
    IF evals_df # <<>> THEN MergeLeft(messages_df, evals_df)
    ELSE [i \in DOMAIN messages_df |-> DailyNoEvalsRow(messages_df[i])]

\* Mutant of BucketDates: a group for today also when today has no row.
BucketDatesAndToday(merged) ==
    {DateOf(merged[i].created_at) : i \in DOMAIN merged} \cup {DateOf(now)}

\* groupby("date"): one group for each date some row has.
BucketDates(merged) == {DateOf(merged[i].created_at) : i \in DOMAIN merged}

\* Mutant of SortAsc: the dates newest first.
SortDesc(S) ==
    CHOOSE p \in [1..Cardinality(S) -> S] :
        \A i \in 1..(Cardinality(S) - 1) : p[i] > p[i + 1]

\* The group keys in the order groupby and sort_values("date") give them.
SortAsc(S) ==
    CHOOSE p \in [1..Cardinality(S) -> S] :
        \A i \in 1..(Cardinality(S) - 1) : p[i] < p[i + 1]

\* Line 288: x.sum() / len(x) * 100 if len(x) > 0 else 0, as the fraction
\* [num, den] of a percentage.
HallucinationPct(column) ==
    IF Len(column) > 0
    THEN [num |-> 100 * SumBool(column), den |-> Len(column)]
    ELSE [num |-> 0, den |-> 1]

\* Mutant of DailyBucket: a missing mean given as 0, as the summary has it.
DailyBucketZeroFilled(merged, d) ==
    LET rows == SelectSeq(merged, LAMBDA r : DateOf(r.created_at) = d)
        orZero(mean) == IF IsNull(mean) THEN Some([num |-> 0, den |-> 1]) ELSE mean
    IN [date |-> d,
        message_count |-> Len(rows),
        avg_response_time |-> orZero(Mean(Column(rows, "response_time_ms"))),
        avg_faithfulness |-> orZero(Mean(Column(rows, "faithfulness_score"))),
        hallucination_rate |->
            HallucinationPct(Column(rows, "hallucination_detected"))]

\* Lines 284-291: the aggregates of the group of date d.  "count" counts the
\* rows whose msg_id is not null, which is every row; the means are not
\* rounded and are the fractions [num, den], or NaN.
DailyBucket(merged, d) ==
    LET rows == SelectSeq(merged, LAMBDA r : DateOf(r.created_at) = d)
    IN [date |-> d,
        message_count |-> Len(rows),
        avg_response_time |-> Mean(Column(rows, "response_time_ms")),
        avg_faithfulness |-> Mean(Column(rows, "faithfulness_score")),
        hallucination_rate |->
            HallucinationPct(Column(rows, "hallucination_detected"))]

\* Lines 284-292.
DailyOf(messages_df, evals_df) ==
    LET merged == DailyMerged(messages_df, evals_df)
        dates == SortAsc(BucketDates(merged))
    IN [k \in DOMAIN dates |-> DailyBucket(merged, dates[k])]

DailyOutcomes(days, start_date, end_date, fail) ==
    LET messages_df == DailyMessageFetch(days, start_date, end_date)
        message_ids == [i \in DOMAIN messages_df |-> messages_df[i].id]
        evals_df == EvaluationFetch(message_ids)
        q1(ok) == Query("juju_messages", ok, None)
        q2(ok) == Query("juju_evaluations", ok, Some(message_ids))
    IN  IF fail = 1 THEN {Outcome(Raised, <<q1(FALSE)>>)}
        ELSE IF messages_df = <<>> THEN {Outcome(Ok(<<>>), <<q1(TRUE)>>)}
        ELSE IF fail = 2 THEN {Outcome(Raised, <<q1(TRUE), q2(FALSE)>>)}
        ELSE {Outcome(Ok(DailyOf(messages_df, evals_df)), <<q1(TRUE), q2(TRUE)>>)}

\* Arguments the calls are tried with: every `days` without a start date,
\* the default `days` with one.
DaysArgs == {Days7, Days30, Days90}
DailyArgs ==
    [days : DaysArgs, start_date : {None}, end_date : Dates]
    \cup [days : {Days30}, start_date : Dates, end_date : Dates]

get_daily_metrics ==
    /\ op = "none"
    /\ \E a \in DailyArgs, fail \in Fails :
         \E o \in DailyOutcomes(a.days, a.start_date, a.end_date, fail) :
           /\ op' = "get_daily_metrics"
           /\ args' = a
           /\ ret' = o.ret
           /\ qlog' = o.qlog
           /\ clients' = 1
           /\ UNCHANGED <<messages, evaluations, now>>

(***************************************************************************)
(* get_question_type_distribution (src/utils/db.py) and the /metrics       *)
(* route (src/main.py).                                                    *)
(***************************************************************************)
\* Mutant of DistributionOutcomes: the evaluations of the messages of the
\* date range only.
DistributionOutcomesInRange(start_date, end_date, fail) ==
    LET in_range == SelectSeq(evaluations, LAMBDA e :
                        \E m \in Range(messages) :
                            m.id = e.message_id /\ InRange(m, start_date, end_date))
        evals_df == [i \in DOMAIN in_range |->
                        [question_type |-> in_range[i].question_type,
                         question_complexity |-> in_range[i].question_complexity,
                         is_high_risk_topic |-> in_range[i].is_high_risk_topic]]
        q1(ok) == Query("juju_evaluations", ok, None)
    IN  IF fail = 1 THEN {Outcome(Raised, <<q1(FALSE)>>)}
        ELSE {Outcome(Ok(evals_df), <<q1(TRUE)>>)}

\* Lines 304-313: every evaluation, the dates unused.  Query 1 is the only
\* query.
DistributionOutcomes(start_date, end_date, fail) ==
    LET evals_df == [i \in DOMAIN evaluations |->
                        [question_type |-> evaluations[i].question_type,
                         question_complexity |-> evaluations[i].question_complexity,
                         is_high_risk_topic |-> evaluations[i].is_high_risk_topic]]
        q1(ok) == Query("juju_evaluations", ok, None)
    IN  IF fail = 1 THEN {Outcome(Raised, <<q1(FALSE)>>)}
        ELSE {Outcome(Ok(evals_df), <<q1(TRUE)>>)}

get_question_type_distribution ==
    /\ op = "none"
    /\ \E start_date \in Dates, end_date \in Dates, fail \in 0..1 :
         \E o \in DistributionOutcomes(start_date, end_date, fail) :
           /\ op' = "get_question_type_distribution"
           /\ args' = [start_date |-> start_date, end_date |-> end_date]
           /\ ret' = o.ret
           /\ qlog' = o.qlog
           /\ clients' = 1
           /\ UNCHANGED <<messages, evaluations, now>>

\* Series.value_counts().to_dict(): the count of each value, the nulls
\* left out.
ValueCounts(column) ==
    [v \in Range(Values(column)) |->
        Len(SelectSeq(column, LAMBDA o : o = Some(v)))]

\* main.py line 125
PageDays(range_str) ==
    IF range_str = "30d" THEN Days30
    ELSE IF range_str = "7d" THEN Days7 ELSE Days90

\* str(row["date"]): the date as a string.
DateStr(d) == [iso |-> d]

\* df.to_dict("records") and the loop of lines 130-132.
DailyData(daily_df) ==
    [k \in DOMAIN daily_df |->
        [date |-> DateStr(daily_df[k].date),
         message_count |-> daily_df[k].message_count,
         avg_response_time |-> daily_df[k].avg_response_time,
         avg_faithfulness |-> daily_df[k].avg_faithfulness,
         hallucination_rate |-> daily_df[k].hallucination_rate]]

\* Lines 149-153: what the except branch renders.
EmptyMetricsContext ==
    [metrics |-> ZeroSummary, daily_data |-> <<>>,
     type_counts |-> <<>>, complexity_counts |-> <<>>]

\* The number of the failing query, counted from the next call's first
\* query, after a call that issued the queries q without failure.
Remaining(fail, q) == IF fail > Len(q) THEN fail - Len(q) ELSE 0

\* Lines 118-163.  `fail` is the number of the page's store query that fails
\* (0: none does); `clients` of an outcome counts the data-layer calls made.
MetricsPageOutcomes(range_str, fail) ==
    LET start_date == parse_date_range(range_str)
        end_date == None
        failed(q, n) == [ret |-> Ok(EmptyMetricsContext), qlog |-> q, clients |-> n]
    IN UNION {
         IF s.ret.status = "raised" THEN {failed(s.qlog, 1)}
         ELSE UNION {
           IF d.ret.status = "raised" THEN {failed(s.qlog \o d.qlog, 2)}
           ELSE {
             IF t.ret.status = "raised"
             THEN failed(s.qlog \o d.qlog \o t.qlog, 3)
             ELSE [ret |-> Ok([metrics |-> s.ret.value,
                               daily_data |-> DailyData(d.ret.value),
                               type_counts |->
                                   ValueCounts(Column(t.ret.value, "question_type")),
                               complexity_counts |->
                                   ValueCounts(Column(t.ret.value,
                                                      "question_complexity"))]),
                   qlog |-> s.qlog \o d.qlog \o t.qlog,
                   clients |-> 3]
             : t \in DistributionOutcomes(start_date, end_date,
                        Remaining(Remaining(fail, s.qlog), d.qlog))}
           : d \in DailyOutcomes(PageDays(range_str), start_date, end_date,
                                 Remaining(fail, s.qlog))}
         : s \in SummaryOutcomes(start_date, end_date, fail)}

\* The failing query of a page: it issues five queries at most.
PageFails == 0..5

metrics_page ==
    /\ op = "none"
    /\ \E range_str \in RangeStrs, fail \in PageFails :
         \E o \in MetricsPageOutcomes(range_str, fail) :
           /\ op' = "metrics_page"
           /\ args' = [range |-> range_str]
           /\ ret' = o.ret
           /\ qlog' = o.qlog
           /\ clients' = o.clients
           /\ UNCHANGED <<messages, evaluations, now>>

(***************************************************************************)
(* get_messages, get_evaluations and get_messages_with_evals               *)
(* (src/utils/db.py).  Here a message also has the columns question and    *)
(* response, and an evaluation the columns question_type,                  *)
(* question_complexity and is_high_risk_topic.  A string that is searched  *)
(* is the sequence of its characters.                                      *)
(***************************************************************************)
Questions == {Some(<<"a", "B">>), Some(<<"a">>)}
Responses == {None, Some(<<"b">>)}
QuestionTypes == {None, Some("how_to"), Some("pricing")}
Complexities == {None, Some("simple"), Some("complex")}

WithText(m, question, response) ==
    [id |-> m.id, created_at |-> m.created_at,
     response_time_ms |-> m.response_time_ms,
     question |-> question, response |-> response]

WithTopic(e, question_type, question_complexity, is_high_risk_topic) ==
    [message_id |-> e.message_id,
     faithfulness_score |-> e.faithfulness_score,
     hallucination_detected |-> e.hallucination_detected,
     capability_hallucination |-> e.capability_hallucination,
     citation_accurate |-> e.citation_accurate,
     question_type |-> question_type,
     question_complexity |-> question_complexity,
     is_high_risk_topic |-> is_high_risk_topic]

\* Python truthiness of an Optional[str] argument: None and "" are falsy.
\* Truthy is for a search text, TruthyName for a name held as a string.
Truthy(s) == s # None /\ Val(s) # <<>>
TruthyName(s) == s # None /\ Val(s) # ""

Lower(c) == IF c = "A" THEN "a" ELSE IF c = "B" THEN "b" ELSE c
LowerStr(s) == [i \in DOMAIN s |-> Lower(s[i])]

\* Series.str.contains(search, case=False, na=False) on one value, for a
\* search text without regular-expression metacharacters.
Contains(text, search) ==
    /\ ~IsNull(text)
    /\ \E k \in 0..(Len(Val(text)) - Len(search)) :
         SubSeq(LowerStr(Val(text)), k + 1, k + Len(search)) = LowerStr(search)

\* The mask of lines 46-49 and 106-109 on one row.
SearchMask(r, search) ==
    Contains(r.question, search) \/ Contains(r.response, search)

\* .range(offset, offset + limit - 1) on the ordered rows p.
PageOf(p, offset, limit) ==
    IF offset >= Len(p) THEN <<>>
    ELSE SubSeq(p, offset + 1,
                IF offset + limit < Len(p) THEN offset + limit ELSE Len(p))

\* The message query of lines 33-42 and 79-87: the date range, newest
\* first, one page.
MessagePages(limit, offset, start_date, end_date) ==
    {PageOf(p, offset, limit) :
        p \in OrderDesc({m \in Range(messages) : InRange(m, start_date, end_date)})}

\* Mutant of MessagesOutcomes: a failed query taken for an empty result.
MessagesOutcomesSwallowed(limit, offset, search, start_date, end_date, fail) ==
    LET q1(ok) == Query("juju_messages", ok, None)
    IN  IF fail = 1 THEN {Outcome(Ok(<<>>), <<q1(FALSE)>>)}
        ELSE {Outcome(Ok(IF Truthy(search) /\ df # <<>>
                         THEN SelectSeq(df, LAMBDA r : SearchMask(r, Val(search)))
                         ELSE df),
                      <<q1(TRUE)>>) :
                df \in MessagePages(limit, offset, start_date, end_date)}

\* Lines 23-52.  Query 1 is the only query.
MessagesOutcomes(limit, offset, search, start_date, end_date, fail) ==
    LET q1(ok) == Query("juju_messages", ok, None)
    IN  IF fail = 1 THEN {Outcome(Raised, <<q1(FALSE)>>)}
        ELSE {Outcome(Ok(IF Truthy(search) /\ df # <<>>
                         THEN SelectSeq(df, LAMBDA r : SearchMask(r, Val(search)))
                         ELSE df),
                      <<q1(TRUE)>>) :
                df \in MessagePages(limit, offset, start_date, end_date)}

\* Arguments the calls are tried with.
PageSizes == {1, 25}
Offsets == {0, 1}
Searches == {None, Some(<<>>), Some(<<"b">>)}

\* The paging and the dates vary without a search, the search varies on the
\* first page of every date.
MessagesArgs ==
    [limit : PageSizes, offset : Offsets, search : {None},
     start_date : Dates, end_date : Dates]
    \cup [limit : {25}, offset : {0}, search : Searches,
          start_date : {None}, end_date : {None}]

get_messages ==
    /\ op = "none"
    /\ \E a \in MessagesArgs, fail \in 0..1 :
         \E o \in MessagesOutcomes(a.limit, a.offset, a.search,
                                   a.start_date, a.end_date, fail) :
           /\ op' = "get_messages"
           /\ args' = a
           /\ ret' = o.ret
           /\ qlog' = o.qlog
           /\ clients' = 1
           /\ UNCHANGED <<messages, evaluations, now>>

\* Mutant of EvaluationsOutcomes: the test of line 57 left out.
EvaluationsOutcomesUnguarded(message_ids, fail) ==
    LET q1(ok) == Query("juju_evaluations", ok, Some(message_ids))
    IN  IF fail = 1
        THEN [ret |-> Raised, qlog |-> <<q1(FALSE)>>, clients |-> 1]
        ELSE [ret |-> Ok(EvaluationFetch(message_ids)), qlog |-> <<q1(TRUE)>>,
              clients |-> 1]

\* Lines 55-62: the outcome, the queries issued and the clients created.
EvaluationsOutcomes(message_ids, fail) ==
    LET q1(ok) == Query("juju_evaluations", ok, Some(message_ids))
    IN  IF message_ids = <<>>
        THEN [ret |-> Ok(<<>>), qlog |-> <<>>, clients |-> 0]
        ELSE IF fail = 1
        THEN [ret |-> Raised, qlog |-> <<q1(FALSE)>>, clients |-> 1]
        ELSE [ret |-> Ok(EvaluationFetch(message_ids)), qlog |-> <<q1(TRUE)>>,
              clients |-> 1]

\* The id lists the calls are tried with.
IdLists == {<<>>, <<1>>, <<2, 1>>, <<3>>}

get_evaluations ==
    /\ op = "none"
    /\ \E message_ids \in IdLists, fail \in 0..1 :
         LET o == EvaluationsOutcomes(message_ids, fail)
         IN /\ op' = "get_evaluations"
            /\ args' = [message_ids |-> message_ids]
            /\ ret' = o.ret
            /\ qlog' = o.qlog
            /\ clients' = o.clients
            /\ UNCHANGED <<messages, evaluations, now>>

\* A row of the merge of line 102 with a match, and one without.
BrowseJoinRow(m, e) ==
    [id |-> m.id, created_at |-> m.created_at,
     response_time_ms |-> m.response_time_ms,
     question |-> m.question, response |-> m.response,
     message_id |-> Some(e.message_id),
     faithfulness_score |-> e.faithfulness_score,
     hallucination_detected |-> e.hallucination_detected,
     capability_hallucination |-> e.capability_hallucination,
     citation_accurate |-> e.citation_accurate,
     question_type |-> e.question_type,
     question_complexity |-> e.question_complexity,
     is_high_risk_topic |-> e.is_high_risk_topic]

BrowseNoEvalRow(m) ==
    [id |-> m.id, created_at |-> m.created_at,
     response_time_ms |-> m.response_time_ms,
     question |-> m.question, response |-> m.response,
     message_id |-> NaN, faithfulness_score |-> NaN,
     hallucination_detected |-> NaN, capability_hallucination |-> NaN,
     citation_accurate |-> NaN, question_type |-> NaN,
     question_complexity |-> NaN, is_high_risk_topic |-> NaN]

\* Mutant of BrowseMerge: how="inner".
BrowseMergeInner(messages_df, evals_df) ==
    Flatten([i \in DOMAIN messages_df |->
        LET ms == Matches(messages_df[i], evals_df)
        IN [k \in DOMAIN ms |-> BrowseJoinRow(messages_df[i], ms[k])]])

\* Line 102: how="left".
BrowseMerge(messages_df, evals_df) ==
    Flatten([i \in DOMAIN messages_df |->
        LET ms == Matches(messages_df[i], evals_df)
        IN IF ms = <<>> THEN <<BrowseNoEvalRow(messages_df[i])>>
           ELSE [k \in DOMAIN ms |-> BrowseJoinRow(messages_df[i], ms[k])]])

\* merged[column] == value for a string argument: a null is not equal.
EqStr(o, value) == o = Some(value)

\* Lines 105-119 on one merged row.
BrowseFilter(r, search, question_type, complexity, high_risk_only) ==
    /\ (Truthy(search) => SearchMask(r, Val(search)))
    /\ ((TruthyName(question_type) /\ question_type # Some("All"))
            => EqStr(r.question_type, Val(question_type)))
    /\ ((TruthyName(complexity) /\ complexity # Some("All"))
            => EqStr(r.question_complexity, Val(complexity)))
    /\ (high_risk_only => EqTrue(r.is_high_risk_topic))

\* Lines 90-121 on a fetched page and its evaluations.
BrowseOf(messages_df, evals_df, search, question_type, complexity, high_risk_only) ==
    IF evals_df = <<>> THEN messages_df
    ELSE SelectSeq(BrowseMerge(messages_df, evals_df),
                   LAMBDA r : BrowseFilter(r, search, question_type,
                                           complexity, high_risk_only))

\* Lines 65-121.
BrowseOutcomes(a, fail) ==
    LET q1(ok) == Query("juju_messages", ok, None)
        q2(ok, df) == Query("juju_evaluations", ok,
                            Some([i \in DOMAIN df |-> df[i].id]))
    IN  IF fail = 1 THEN {Outcome(Raised, <<q1(FALSE)>>)}
        ELSE {IF messages_df = <<>> THEN Outcome(Ok(messages_df), <<q1(TRUE)>>)
              ELSE IF fail = 2
              THEN Outcome(Raised, <<q1(TRUE), q2(FALSE, messages_df)>>)
              ELSE Outcome(
                     Ok(BrowseOf(messages_df,
                                 EvaluationFetch([i \in DOMAIN messages_df |->
                                                     messages_df[i].id]),
                                 a.search, a.question_type, a.complexity,
                                 a.high_risk_only)),
                     <<q1(TRUE), q2(TRUE, messages_df)>>) :
                messages_df \in MessagePages(a.limit, a.offset,
                                             a.start_date, a.end_date)}

\* Arguments the calls are tried with.
TypeArgs == {None, Some("how_to")}
ComplexityArgs == {None, Some("simple")}
DateRanges == {<<None, None>>, <<Some(190), None>>, <<None, Some(190)>>}

\* The paging and the dates vary without criteria and with every failure;
\* the criteria vary on the first page of every date, as do the values that
\* stand for no criterion.
NoCriterion == [search : {None}, question_type : {None}, complexity : {None},
                high_risk_only : {FALSE}]
BrowseCall(limit, offset, range, c, fail) ==
    [limit |-> limit, offset |-> offset, search |-> c.search,
     start_date |-> range[1], end_date |-> range[2],
     question_type |-> c.question_type, complexity |-> c.complexity,
     high_risk_only |-> c.high_risk_only, fail |-> fail]
BrowseCalls ==
    {BrowseCall(limit, offset, range, c, fail) :
        limit \in PageSizes, offset \in Offsets, range \in DateRanges,
        c \in NoCriterion, fail \in Fails}
    \cup {BrowseCall(25, 0, <<None, None>>, c, 0) :
            c \in [search : {None, Some(<<"b">>)}, question_type : TypeArgs,
                    complexity : ComplexityArgs, high_risk_only : BOOLEAN]
                \cup [search : {Some(<<>>)}, question_type : {Some("All")},
                      complexity : {Some("All")}, high_risk_only : {FALSE}]}

get_messages_with_evals ==
    /\ op = "none"
    /\ \E c \in BrowseCalls :
         \E o \in BrowseOutcomes(c, c.fail) :
           /\ op' = "get_messages_with_evals"
           /\ args' = [f \in DOMAIN c \ {"fail"} |-> c[f]]
           /\ ret' = o.ret
           /\ qlog' = o.qlog
           /\ clients' = 1
           /\ UNCHANGED <<messages, evaluations, now>>

(***************************************************************************)
(* The routes /, /messages, /api/metrics and /api/daily (src/main.py).     *)
(***************************************************************************)
\* Lines 53-59: the metrics the except branch of the home page renders.
ZeroMetrics ==
    [total_messages |-> 0, messages_today |-> 0,
     avg_response_time_ms |-> Some(0), avg_faithfulness |-> Some(0),
     hallucination_rate |-> Some(0)]

\* Lines 49-66.
HomeContext(metrics) == [metrics |-> metrics]

HomeOutcomes(range_str, fail) ==
    {Outcome(Ok(HomeContext(IF o.ret.status = "raised" THEN ZeroMetrics
                            ELSE o.ret.value)),
             o.qlog) :
        o \in SummaryOutcomes(parse_date_range(range_str), None, fail)}

dashboard_home ==
    /\ op = "none"
    /\ \E range_str \in RangeStrs, fail \in Fails :
         \E o \in HomeOutcomes(range_str, fail) :
           /\ op' = "dashboard_home"
           /\ args' = [range |-> range_str]
           /\ ret' = o.ret
           /\ qlog' = o.qlog
           /\ clients' = 1
           /\ UNCHANGED <<messages, evaluations, now>>

\* Line 82
MessagesPageSize == 25

\* Lines 86-95: the arguments the page gives to get_messages_with_evals.  A
\* query string is never None; `search` is the sequence of its characters.
MessagesPageCall(a) ==
    [limit |-> MessagesPageSize,
     offset |-> (a.page - 1) * MessagesPageSize,
     search |-> IF a.search # <<>> THEN Some(a.search) ELSE None,
     start_date |-> parse_date_range(a.range),
     end_date |-> None,
     question_type |-> IF a.question_type # "All" THEN Some(a.question_type)
                       ELSE None,
     complexity |-> IF a.complexity # "All" THEN Some(a.complexity) ELSE None,
     high_risk_only |-> a.high_risk]

\* Lines 96-98: df.to_dict("records"), or [] in the except branch.
MessagesContext(df) == [messages |-> df]

MessagesPageOutcomes(a, fail) ==
    {Outcome(Ok(MessagesContext(IF o.ret.status = "raised" THEN <<>>
                                ELSE o.ret.value)),
             o.qlog) :
        o \in BrowseOutcomes(MessagesPageCall(a), fail)}

\* Requests the page is tried with: every range and page with every
\* failure, and the criteria on the first page of the all-time range.
MessagesPageArgs ==
    [range : RangeStrs, search : {<<>>}, question_type : {"All"},
     complexity : {"All"}, high_risk : {FALSE}, page : {1, 2}, fail : Fails]
    \cup [range : {"all"}, search : {<<>>, <<"b">>},
          question_type : {"All", "how_to"}, complexity : {"All", "simple"},
          high_risk : BOOLEAN, page : {1}, fail : {0}]

messages_page ==
    /\ op = "none"
    /\ \E a \in MessagesPageArgs :
         \E o \in MessagesPageOutcomes(a, a.fail) :
           /\ op' = "messages_page"
           /\ args' = [f \in DOMAIN a \ {"fail"} |-> a[f]]
           /\ ret' = o.ret
           /\ qlog' = o.qlog
           /\ clients' = 1
           /\ UNCHANGED <<messages, evaluations, now>>

\* JSONResponse(content, status_code): the response, as its status and the
\* content its body renders.
JSONResponse(content, status_code) ==
    [status_code |-> status_code, body |-> content]

\* str(e) of the exception caught.
ErrorBody == [error |-> "exception"]

\* JSONResponse renders its content in its constructor with allow_nan=False:
\* a NaN in the content raises ValueError there.
MetricsHasNaN(metrics) ==
    \/ IsNull(metrics.avg_response_time_ms)
    \/ IsNull(metrics.avg_faithfulness)
    \/ IsNull(metrics.hallucination_rate)
DailyHasNaN(data) ==
    \E k \in DOMAIN data :
        IsNull(data[k].avg_response_time) \/ IsNull(data[k].avg_faithfulness)

\* Mutant of ApiMetricsOutcomes: a failure answered as the home page
\* answers it.
ApiMetricsOutcomesZeroed(range_str, fail) ==
    {Outcome(Ok(IF o.ret.status = "raised" THEN JSONResponse(ZeroMetrics, 200)
                ELSE IF MetricsHasNaN(o.ret.value) THEN JSONResponse(ErrorBody, 500)
                ELSE JSONResponse(o.ret.value, 200)),
             o.qlog) :
        o \in SummaryOutcomes(parse_date_range(range_str), None, fail)}

\* Lines 211-219.
ApiMetricsOutcomes(range_str, fail) ==
    {Outcome(Ok(IF o.ret.status = "raised" \/ MetricsHasNaN(o.ret.value)
                THEN JSONResponse(ErrorBody, 500)
                ELSE JSONResponse(o.ret.value, 200)),
             o.qlog) :
        o \in SummaryOutcomes(parse_date_range(range_str), None, fail)}

api_metrics ==
    /\ op = "none"
    /\ \E range_str \in RangeStrs, fail \in Fails :
         \E o \in ApiMetricsOutcomes(range_str, fail) :
           /\ op' = "api_metrics"
           /\ args' = [range |-> range_str]
           /\ ret' = o.ret
           /\ qlog' = o.qlog
           /\ clients' = 1
           /\ UNCHANGED <<messages, evaluations, now>>

\* Lines 222-235.
ApiDailyOutcomes(range_str, fail) ==
    {Outcome(Ok(IF o.ret.status = "raised" \/ DailyHasNaN(o.ret.value)
                THEN JSONResponse(ErrorBody, 500)
                ELSE JSONResponse(DailyData(o.ret.value), 200)),
             o.qlog) :
        o \in DailyOutcomes(PageDays(range_str), parse_date_range(range_str),
                            None, fail)}

api_daily ==
    /\ op = "none"
    /\ \E range_str \in RangeStrs, fail \in Fails :
         \E o \in ApiDailyOutcomes(range_str, fail) :
           /\ op' = "api_daily"
           /\ args' = [range |-> range_str]
           /\ ret' = o.ret
           /\ qlog' = o.qlog
           /\ clients' = 1
           /\ UNCHANGED <<messages, evaluations, now>>

(***************************************************************************)
(* Specification of the flagged-issues functions.                          *)
(***************************************************************************)
InitCall ==
    /\ now = 200
    /\ op = "none"
    /\ args = <<>>
    /\ ret = Ok(<<>>)
    /\ qlog = <<>>
    /\ clients = 0

\* Every combination of the flag columns occurs in a table of one evaluation;
\* tables of several evaluations are made of the rows of CoreFlagRows.
InitFlagged ==
    /\ \E t \in MessageTables(MaxMsgs, Times, {None}) :
         /\ messages = WithIds(t)
         /\ evaluations \in EvaluationTables(FlagRows(DOMAIN t), 1)
                \cup EvaluationTables(CoreFlagRows(DOMAIN t), MaxEvals)
    /\ InitCall

NextFlagged ==
    \/ get_flagged_messages
    \/ flagged_page

Spec == InitFlagged /\ [][NextFlagged]_vars

(***************************************************************************)
(* Specification of the metrics summary.                                   *)
(***************************************************************************)
\* Every combination of the columns the summary reads.
SummaryRows(ids) ==
    EvaluationRows(ids, Scores, NullableBools, {Some(FALSE)}, {Some(TRUE)})
CoreSummaryRows(ids) == {e \in SummaryRows(ids) : Differences(e) <= 1}

\* Either the messages vary in response_time_ms and there is at most one
\* evaluation, or no message has a response_time_ms and the evaluations are
\* several rows of CoreSummaryRows.
InitSummary ==
    /\ \/ \E t \in MessageTables(MaxMsgs, Times, ResponseTimes) :
            /\ messages = WithIds(t)
            /\ evaluations \in EvaluationTables(SummaryRows(DOMAIN t), 1)
       \/ \E t \in MessageTables(MaxMsgs, Times, {None}) :
            /\ messages = WithIds(t)
            /\ evaluations \in EvaluationTables(CoreSummaryRows(DOMAIN t), MaxEvals)
    /\ InitCall

NextSummary ==
    \/ get_metrics_summary

SpecSummary == InitSummary /\ [][NextSummary]_vars

(***************************************************************************)
(* Specification of the daily metrics and the /metrics route.              *)
(***************************************************************************)
\* 10 is older than every range of the page, 150 older than the 7-day
\* range, 198 and 199 are of one day.
DailyTimes == {10, 150, 198, 199}

\* The evaluations with the columns the distribution reads, the same in
\* every row.
Topical(t) ==
    [i \in DOMAIN t |-> WithTopic(t[i], Some("how_to"), Some("simple"), Some(FALSE))]

\* The clean evaluation, the one with a score and the one with a detected
\* hallucination.
CoreDailyRows(ids) ==
    {e \in EvaluationRows(ids, {None, Some(7)}, Bools, {Some(FALSE)}, {Some(TRUE)}) :
        Differences(e) <= 1}

\* As InitSummary, with the messages at DailyTimes.
InitDaily ==
    /\ \/ \E t \in MessageTables(MaxMsgs, DailyTimes, ResponseTimes) :
            /\ messages = WithIds(t)
            /\ \E et \in EvaluationTables(SummaryRows(DOMAIN t), 1) :
                 evaluations = Topical(et)
       \/ \E t \in MessageTables(MaxMsgs, DailyTimes, {None}) :
            /\ messages = WithIds(t)
            /\ \E et \in EvaluationTables(CoreDailyRows(DOMAIN t), MaxEvals) :
                 evaluations = Topical(et)
    /\ InitCall

NextDaily ==
    \/ get_daily_metrics
    \/ metrics_page

SpecDaily == InitDaily /\ [][NextDaily]_vars

(***************************************************************************)
(* Specification of the message browser's fetch.                           *)
(***************************************************************************)
\* The tables t with every choice of question and response.
TextTables(t, questions, responses) ==
    {[i \in DOMAIN t |-> WithText(WithIds(t)[i], q[i], r[i])] :
        q \in [DOMAIN t -> questions], r \in [DOMAIN t -> responses]}

\* Every combination of the columns the criteria read, on a clean evaluation.
TopicRows(ids) ==
    {WithTopic(CleanEval(id), qt, qc, hr) :
        id \in ids, qt \in QuestionTypes, qc \in Complexities, hr \in NullableBools}
\* The how_to, simple, low-risk evaluation and those that differ from it in
\* the question type alone or in the risk alone.
CoreTopicRows(ids) ==
    {WithTopic(CleanEval(id), Some("how_to"), Some("simple"), Some(FALSE)) : id \in ids}
    \cup {WithTopic(CleanEval(id), Some("pricing"), Some("simple"), Some(FALSE)) : id \in ids}
    \cup {WithTopic(CleanEval(id), Some("how_to"), Some("simple"), Some(TRUE)) : id \in ids}

NameCode(o, first) == IF IsNull(o) THEN 0 ELSE IF o = Some(first) THEN 1 ELSE 2
TopicKey(e) ==
    ((e.message_id * 3 + NameCode(e.question_type, "how_to")) * 3
        + NameCode(e.question_complexity, "simple")) * 3
        + BoolCode(e.is_high_risk_topic)
TopicTables(rows, n) ==
    {t \in SeqsUpTo(rows, n) :
        \A i \in 1..(Len(t) - 1) : TopicKey(t[i]) <= TopicKey(t[i + 1])}

\* Either the messages are of different instants, vary in their texts and
\* there is at most one evaluation, or some messages are of one instant,
\* the texts are fixed and the evaluations are several rows of
\* CoreTopicRows.
InitBrowse ==
    /\ \/ \E t \in MessageTables(MaxMsgs, Times, {None}) :
            /\ \A i \in 1..(Len(t) - 1) : t[i].created_at < t[i + 1].created_at
            /\ messages \in TextTables(t, Questions, Responses)
            /\ evaluations \in TopicTables(TopicRows(DOMAIN t), 1)
       \/ \E t \in MessageTables(MaxMsgs, {190, 200}, {None}) :
            /\ messages \in TextTables(t, {Some(<<"a", "B">>)}, {None})
            /\ evaluations \in TopicTables(CoreTopicRows(DOMAIN t), MaxEvals)
    /\ InitCall

NextBrowse ==
    \/ get_messages_with_evals

SpecBrowse == InitBrowse /\ [][NextBrowse]_vars

(***************************************************************************)
(* Specification of the whole data layer: every function on one store.     *)
(***************************************************************************)
InitLayer ==
    /\ \E t \in MessageTables(MaxMsgs, Times, {None}) :
         /\ messages \in TextTables(t, {Some(<<"a", "B">>)}, Responses)
         /\ \E et \in EvaluationTables(CoreFlagRows(DOMAIN t), 1) :
              evaluations = Topical(et)
    /\ InitCall

NextLayer ==
    \/ get_messages
    \/ get_evaluations
    \/ get_messages_with_evals
    \/ get_flagged_messages
    \/ get_metrics_summary
    \/ get_daily_metrics

SpecLayer == InitLayer /\ [][NextLayer]_vars

(***************************************************************************)
(* Specification of the question-type distribution and the /metrics route. *)
(***************************************************************************)
\* A message older than every range of the page and one of yesterday.
DistTimes == {10, 199}

\* Either at most one evaluation with every combination of the columns the
\* distribution reads, or several rows of CoreTopicRows.
InitDist ==
    /\ \E t \in MessageTables(MaxMsgs, DistTimes, {None}) :
         /\ messages = WithIds(t)
         /\ evaluations \in TopicTables(TopicRows(DOMAIN t), 1)
                \cup TopicTables(CoreTopicRows(DOMAIN t), MaxEvals)
    /\ InitCall

NextDist ==
    \/ get_question_type_distribution
    \/ metrics_page

SpecDist == InitDist /\ [][NextDist]_vars

(***************************************************************************)
(* Specification of the routes: every route on one store.                  *)
(***************************************************************************)
\* The store may be empty; a message may have a response time, and there
\* is at most one evaluation.
InitRoutes ==
    /\ \E t \in MessageTables(MaxMsgs, Times, {None, Some(2)}) :
         /\ messages \in TextTables(t, {Some(<<"a", "B">>)}, {None})
         /\ \E et \in EvaluationTables(CoreFlagRows(DOMAIN t), 1) :
              evaluations = Topical(et)
    /\ InitCall

NextRoutes ==
    \/ dashboard_home
    \/ messages_page
    \/ metrics_page
    \/ flagged_page
    \/ api_metrics
    \/ api_daily

SpecRoutes == InitRoutes /\ [][NextRoutes]_vars

(***************************************************************************)
(* Claims about get_flagged_messages and the /flagged route.               *)
(***************************************************************************)
FlaggedReturned == op = "get_flagged_messages" /\ ret.status = "ok"

\* The evaluation columns of a returned row.
EvalOfRow(r) ==
    [message_id |-> Val(r.message_id),
     faithfulness_score |-> r.faithfulness_score,
     hallucination_detected |-> r.hallucination_detected,
     capability_hallucination |-> r.capability_hallucination,
     citation_accurate |-> r.citation_accurate]

\* The four rules as the specification words them.
RuleHallucination(e) == e.hallucination_detected = Some(TRUE)
RuleCapability(e) == e.capability_hallucination = Some(TRUE)
RuleLowFaithfulness(e, threshold) ==
    e.faithfulness_score # None /\ Val(e.faithfulness_score) < threshold
RuleCitation(e) == e.citation_accurate = Some(FALSE)
RuleAny(e, threshold) ==
    \/ RuleHallucination(e)
    \/ RuleCapability(e)
    \/ RuleLowFaithfulness(e, threshold)
    \/ RuleCitation(e)

\* The messages of the call's date range that have an evaluation some rule
\* flags.
FlaggedInRange(threshold, start_date, end_date) ==
    {m \in Range(messages) :
        /\ InRange(m, start_date, end_date)
        /\ \E e \in Range(evaluations) :
             e.message_id = m.id /\ RuleAny(e, threshold)}

\* C1: with a threshold in [0,1], get_flagged_messages returns a (message,
\* evaluation) row only if the evaluation satisfies one of the four rules
\* (hallucination_detected true, capability_hallucination true, a non-null
\* score strictly below the threshold, citation_accurate false exactly), and
\* it returns every such pair of an in-range message whenever the number of
\* such messages does not exceed limit.
C1_FlagRules ==
    (FlaggedReturned /\ args.faithfulness_threshold \in ThresholdMin..ThresholdMax) =>
        LET thr == args.faithfulness_threshold
            due == FlaggedInRange(thr, args.start_date, args.end_date)
        IN /\ \A r \in Range(ret.value) :
                /\ RuleAny(EvalOfRow(r), thr)
                /\ EvalOfRow(r) \in Range(evaluations)
                /\ r.id = Val(r.message_id)
           /\ Cardinality(due) <= args.limit =>
                \A m \in due : \A e \in Range(evaluations) :
                    (e.message_id = m.id /\ RuleAny(e, thr)) =>
                        \E r \in Range(ret.value) : r.id = m.id /\ EvalOfRow(r) = e

\* A call with threshold 0.7 that returned the row of a score 0 and left out
\* an in-range message whose only evaluation has the score 0.7 and nothing
\* else wrong.
C1_Witness ==
    /\ FlaggedReturned
    /\ args.faithfulness_threshold = 7
    /\ \E r \in Range(ret.value) :
         /\ r.faithfulness_score = Some(0)
         /\ ~RuleHallucination(EvalOfRow(r))
         /\ ~RuleCapability(EvalOfRow(r))
         /\ ~RuleCitation(EvalOfRow(r))
    /\ \E m \in Range(messages) :
         /\ InRange(m, args.start_date, args.end_date)
         /\ \E e \in Range(evaluations) :
              e.message_id = m.id /\ e.faithfulness_score = Some(7)
         /\ \A r \in Range(ret.value) : r.id # m.id

\* C2: an evaluation with a null score and no other rule tripped is never
\* returned by get_flagged_messages, whatever threshold is passed.
C2_NullScoreNeverFlagged ==
    FlaggedReturned =>
        \A r \in Range(ret.value) :
            IsNull(r.faithfulness_score) =>
                \/ RuleHallucination(EvalOfRow(r))
                \/ RuleCapability(EvalOfRow(r))
                \/ RuleCitation(EvalOfRow(r))

\* C3: a message with no evaluation row is never in the result of
\* get_flagged_messages, for any threshold, date range and limit.
C3_NoEvaluationNeverFlagged ==
    FlaggedReturned =>
        \A r \in Range(ret.value) :
            \E e \in Range(evaluations) : e.message_id = r.id

\* A call that returned rows while an in-range message of the store has no
\* evaluation.
C3_Witness ==
    /\ FlaggedReturned
    /\ ret.value # <<>>
    /\ \E m \in Range(messages) :
         /\ InRange(m, args.start_date, args.end_date)
         /\ \A e \in Range(evaluations) : e.message_id # m.id

\* C4: the four counts of the /flagged route equal the numbers of returned
\* rows that satisfy the respective rule; the low-faithfulness count is the
\* number of rows with a non-null score strictly below the threshold, a
\* score of exactly 0 included.
C4_ReasonCounts ==
    (op = "flagged_page" /\ ret.status = "ok") =>
        LET c == ret.value
            n(Rule(_)) == Cardinality({i \in DOMAIN c.flagged :
                                          Rule(EvalOfRow(c.flagged[i]))})
        IN /\ c.halluc_count = n(RuleHallucination)
           /\ c.cap_halluc_count = n(RuleCapability)
           /\ c.low_faith_count =
                n(LAMBDA e : RuleLowFaithfulness(e, args.threshold))
           /\ c.bad_citation_count = n(RuleCitation)

\* C5: the rows returned by get_flagged_messages are in non-increasing
\* created_at order, also when a message has several flagged evaluations.
C5_NewestFirst ==
    FlaggedReturned =>
        \A i, j \in DOMAIN ret.value :
            i < j => ret.value[i].created_at >= ret.value[j].created_at

\* A result with two rows of one message followed by a row of an older one.
C5_Witness ==
    /\ FlaggedReturned
    /\ Len(ret.value) >= 3
    /\ ret.value[1].id = ret.value[2].id
    /\ ret.value[3].id # ret.value[1].id
    /\ ret.value[3].created_at < ret.value[1].created_at

(***************************************************************************)
(* Claims about get_metrics_summary.                                       *)
(***************************************************************************)
SummaryCalled == op = "get_metrics_summary"
SummaryReturned == SummaryCalled /\ ret.status = "ok"

\* The messages of the call's date range and the evaluations of those
\* messages, as sets of table positions.
MessagesInRange ==
    {i \in DOMAIN messages : InRange(messages[i], args.start_date, args.end_date)}
EvaluationsInRange ==
    {k \in DOMAIN evaluations :
        \E i \in MessagesInRange : evaluations[k].message_id = messages[i].id}

BothFetchesSucceeded == Len(qlog) = 2 /\ qlog[1].ok /\ qlog[2].ok

\* C6: when the message fetch returns at least one message and the
\* evaluation fetch returns no row, the call does not raise, avg_faithfulness
\* and hallucination_rate are 0 (not NaN) and total_messages is the number of
\* messages.
C6_NoEvaluations ==
    (SummaryCalled /\ BothFetchesSucceeded
        /\ MessagesInRange # {} /\ EvaluationsInRange = {}) =>
        /\ ret.status = "ok"
        /\ ret.value.avg_faithfulness = Some(0)
        /\ ret.value.hallucination_rate = Some(0)
        /\ ret.value.total_messages = Cardinality(MessagesInRange)

\* A call with a message in range, while the store's only evaluations are of
\* a message outside the range.
C6_Witness ==
    /\ SummaryReturned
    /\ MessagesInRange # {}
    /\ evaluations # <<>>
    /\ EvaluationsInRange = {}
    /\ Len(qlog) = 2

\* The sum of f over the set S of integers.
RECURSIVE SumOver(_, _)
SumOver(S, f) ==
    IF S = {} THEN 0
    ELSE LET x == CHOOSE y \in S : TRUE IN f[x] + SumOver(S \ {x}, f)

\* C7: avg_faithfulness is the mean of the non-null scores of the fetched
\* evaluations (rounded to 3 decimals) and 0 when there is none, also when
\* evaluations exist and every score is null; avg_response_time_ms is the
\* mean of the present response_time_ms (rounded to an integer) and 0 when
\* every message lacks it.
C7_MeansOrZero ==
    (SummaryReturned /\ MessagesInRange # {}) =>
        LET scored == {k \in EvaluationsInRange :
                          evaluations[k].faithfulness_score # None}
            timed == {i \in MessagesInRange : messages[i].response_time_ms # None}
            score == [k \in scored |-> Val(evaluations[k].faithfulness_score)]
            time == [i \in timed |-> Val(messages[i].response_time_ms)]
        IN /\ ret.value.avg_faithfulness =
                IF scored = {} THEN Some(0)
                ELSE Some(RoundHalfEven(100 * SumOver(scored, score),
                                        Cardinality(scored)))
           /\ ret.value.avg_response_time_ms =
                IF timed = {} THEN Some(0)
                ELSE Some(RoundHalfEven(SumOver(timed, time), Cardinality(timed)))

\* C8: hallucination_rate is 100 times the number of fetched evaluations with
\* hallucination_detected true over the number of fetched evaluations
\* (rounded to one decimal), 0 when there is none, and lies in [0,100].
C8_HallucinationRate ==
    SummaryReturned =>
        LET hits == {k \in EvaluationsInRange :
                        evaluations[k].hallucination_detected = Some(TRUE)}
            n == Cardinality(EvaluationsInRange)
            rate == ret.value.hallucination_rate
        IN /\ rate # NaN
           /\ Val(rate) >= 0 /\ Val(rate) <= 1000
           /\ Val(rate) = IF n = 0 THEN 0
                          ELSE RoundHalfEven(1000 * Cardinality(hits), n)

\* A summary over a message with several evaluations, one with
\* hallucination_detected true and one with it null.
C8_Witness ==
    /\ SummaryReturned
    /\ \E k1, k2 \in EvaluationsInRange :
         /\ k1 # k2
         /\ evaluations[k1].message_id = evaluations[k2].message_id
         /\ evaluations[k1].hallucination_detected = Some(TRUE)
         /\ evaluations[k2].hallucination_detected = None
    /\ Val(ret.value.hallucination_rate) > 0
    /\ Val(ret.value.hallucination_rate) < 1000

\* C9: for a non-empty set of in-range messages, total_messages is the number
\* of messages in the range, however many evaluation rows each has.
C9_TotalMessages ==
    (SummaryReturned /\ MessagesInRange # {}) =>
        ret.value.total_messages = Cardinality(MessagesInRange)

\* A summary over two messages, one with two evaluations and one with none.
C9_Witness ==
    /\ SummaryReturned
    /\ Cardinality(MessagesInRange) = 2
    /\ ret.value.total_messages = 2
    /\ \E i, j \in MessagesInRange :
         /\ Cardinality({k \in DOMAIN evaluations :
                            evaluations[k].message_id = messages[i].id}) >= 2
         /\ \A k \in DOMAIN evaluations : evaluations[k].message_id # messages[j].id

\* C10: when the message fetch succeeds with zero rows, the call returns the
\* summary with every field 0, without raising and without fetching
\* evaluations.
C10_EmptyRange ==
    (SummaryCalled /\ qlog # <<>> /\ qlog[1].ok /\ MessagesInRange = {}) =>
        /\ ret.status = "ok"
        /\ ret.value.total_messages = 0
        /\ ret.value.messages_today = 0
        /\ ret.value.avg_response_time_ms = Some(0)
        /\ ret.value.avg_faithfulness = Some(0)
        /\ ret.value.hallucination_rate = Some(0)
        /\ \A k \in DOMAIN qlog : qlog[k].table # "juju_evaluations"

\* A call whose date range holds none of the messages of a store that has
\* messages and evaluations.
C10_Witness ==
    /\ SummaryReturned
    /\ messages # <<>>
    /\ evaluations # <<>>
    /\ MessagesInRange = {}
    /\ Len(qlog) = 1

(***************************************************************************)
(* Claims about get_daily_metrics.                                         *)
(***************************************************************************)
DailyReturned == op = "get_daily_metrics" /\ ret.status = "ok"

\* The messages the call fetches, as table positions, the evaluations of a
\* message, and the number of rows the message has in the left join.
DailyFetched ==
    {i \in DOMAIN messages :
        InRange(messages[i], DailyStart(args.days, args.start_date), args.end_date)}
EvalsOf(i) ==
    {k \in DOMAIN evaluations : evaluations[k].message_id = messages[i].id}
JoinedRows(i) == IF EvalsOf(i) = {} THEN 1 ELSE Cardinality(EvalsOf(i))
FetchedOn(d) == {i \in DailyFetched : DateOf(messages[i].created_at) = d}
EvalsOn(d) == UNION {EvalsOf(i) : i \in FetchedOn(d)}

\* C11: the dates of the buckets get_daily_metrics returns are strictly
\* increasing, so no date has two buckets, whatever the store holds, messages
\* with several evaluations included.
C11_DatesIncreasing ==
    DailyReturned =>
        \A k \in 1..(Len(ret.value) - 1) : ret.value[k].date < ret.value[k + 1].date

\* Two buckets, and a message with two evaluations.
C11_Witness ==
    /\ DailyReturned
    /\ Len(ret.value) >= 2
    /\ \E i \in DailyFetched : Cardinality(EvalsOf(i)) >= 2

\* C12: there is a bucket for a date exactly when a fetched message has that
\* date; message_count is the number of joined rows of the date and is at
\* least 1; no bucket is made for a day without messages.
C12_BucketsOfFetchedDates ==
    DailyReturned =>
        LET rows == [i \in DailyFetched |-> JoinedRows(i)]
        IN /\ {ret.value[k].date : k \in DOMAIN ret.value}
                = {DateOf(messages[i].created_at) : i \in DailyFetched}
           /\ \A k \in DOMAIN ret.value :
                /\ ret.value[k].message_count >= 1
                /\ ret.value[k].message_count
                     = SumOver(FetchedOn(ret.value[k].date), rows)

\* Two buckets with a day between them that has no message, and a bucket of
\* more rows than messages.
C12_Witness ==
    /\ DailyReturned
    /\ \E k \in 1..(Len(ret.value) - 1) : ret.value[k].date + 1 < ret.value[k + 1].date
    /\ \E k \in DOMAIN ret.value :
         ret.value[k].message_count > Cardinality(FetchedOn(ret.value[k].date))

\* C13: the hallucination_rate of a bucket is 100 times the number of the
\* day's rows with hallucination_detected true over the number of the day's
\* rows that have an evaluation, and 0 when the day has no evaluated row.
C13_DailyHallucinationRate ==
    DailyReturned =>
        \A k \in DOMAIN ret.value :
            LET evaluated == EvalsOn(ret.value[k].date)
                halluc == {e \in evaluated :
                              EqTrue(evaluations[e].hallucination_detected)}
                rate == ret.value[k].hallucination_rate
            IN IF evaluated = {} THEN rate.num = 0
               ELSE rate.num * Cardinality(evaluated)
                        = 100 * Cardinality(halluc) * rate.den

MetricsPageSucceeded ==
    op = "metrics_page" /\ \A k \in DOMAIN qlog : qlog[k].ok

\* The messages of the page's range, as table positions.
PageMessages ==
    {i \in DOMAIN messages :
        InRange(messages[i], parse_date_range(args.range), None)}

\* C14: the avg_faithfulness of a bucket is the mean of the non-null scores
\* of the day's rows and is null, not 0, when the day has none; over
\* messages without any evaluation the summary of the page reports 0 where
\* the buckets of the page report null.
C14_DailyFaithfulness ==
    /\ DailyReturned =>
         \A k \in DOMAIN ret.value :
            LET scored == {e \in EvalsOn(ret.value[k].date) :
                              ~IsNull(evaluations[e].faithfulness_score)}
                score == [e \in scored |-> Val(evaluations[e].faithfulness_score)]
                avg == ret.value[k].avg_faithfulness
            IN IF scored = {} THEN avg = NaN
               ELSE /\ avg # NaN
                    /\ Val(avg).num * Cardinality(scored)
                         = SumOver(scored, score) * Val(avg).den
    /\ (MetricsPageSucceeded /\ \A i \in PageMessages : EvalsOf(i) = {})
         => /\ ret.value.metrics.avg_faithfulness = Some(0)
            /\ \A k \in DOMAIN ret.value.daily_data :
                 ret.value.daily_data[k].avg_faithfulness = NaN

\* The page over messages without evaluations: a bucket with a null average
\* beside a summary average of 0.
C14_Witness ==
    /\ MetricsPageSucceeded
    /\ ret.value.daily_data # <<>>
    /\ ret.value.metrics.total_messages > 0
    /\ ret.value.metrics.avg_faithfulness = Some(0)
    /\ \A k \in DOMAIN ret.value.daily_data :
         ret.value.daily_data[k].avg_faithfulness = NaN

\* C16: without a start date no fetch has a lower bound: get_daily_metrics
\* buckets every message up to the end date however old, and the daily
\* series of the page for the all-time range covers the messages its
\* summary counts, which are all the messages.
C16_NoLowerBound ==
    /\ (DailyReturned /\ ~Given(args.start_date))
         => {ret.value[k].date : k \in DOMAIN ret.value}
              = {DateOf(messages[i].created_at) :
                    i \in {j \in DOMAIN messages :
                              InRange(messages[j], None, args.end_date)}}
    /\ (MetricsPageSucceeded /\ args.range = "all")
         => /\ ret.value.metrics.total_messages = Len(messages)
            /\ {ret.value.daily_data[k].date : k \in DOMAIN ret.value.daily_data}
                 = {DateStr(DateOf(messages[i].created_at)) : i \in DOMAIN messages}

(***************************************************************************)
(* Claims about the whole data layer.                                      *)
(***************************************************************************)
\* start <= created_at < end, a bound applied when it is given.
HalfOpen(m, start_date, end_date) ==
    /\ (Given(start_date) => m.created_at >= Val(start_date))
    /\ (Given(end_date) => m.created_at < Val(end_date))

\* C15: a fetch with a date range takes the messages with
\* start <= created_at < end: a message created at the end date is not
\* returned by get_messages, get_messages_with_evals or get_flagged_messages
\* and not counted by get_metrics_summary or get_daily_metrics.
C15_HalfOpenRange ==
    /\ (/\ op \in {"get_messages", "get_messages_with_evals", "get_flagged_messages"}
        /\ ret.status = "ok")
         => \A k \in DOMAIN ret.value :
                HalfOpen(ret.value[k], args.start_date, args.end_date)
    /\ SummaryReturned
         => ret.value.total_messages
              = Cardinality({i \in DOMAIN messages :
                    HalfOpen(messages[i], args.start_date, args.end_date)})
    /\ DailyReturned
         => {ret.value[k].date : k \in DOMAIN ret.value}
              = {DateOf(messages[i].created_at) :
                    i \in {j \in DOMAIN messages :
                              HalfOpen(messages[j],
                                       DailyStart(args.days, args.start_date),
                                       args.end_date)}}

\* Whether the message fetch of the call returned no row.
FetchedNone ==
    IF op = "get_daily_metrics" THEN DailyFetched = {}
    ELSE IF op = "get_metrics_summary" THEN MessagesInRange = {}
    ELSE args.offset >= Cardinality(MessagesInRange)

\* C17: get_evaluations with an empty id list returns an empty result
\* without creating a client or executing a query; get_messages_with_evals,
\* get_metrics_summary and get_daily_metrics issue no evaluation query when
\* their message fetch returned no row.
C17_NoStoreAccess ==
    /\ (op = "get_evaluations" /\ args.message_ids = <<>>)
         => /\ ret = Ok(<<>>)
            /\ qlog = <<>>
            /\ clients = 0
    /\ (/\ op \in {"get_messages_with_evals", "get_metrics_summary", "get_daily_metrics"}
        /\ ret.status = "ok"
        /\ FetchedNone)
         => \A k \in DOMAIN qlog : qlog[k].table # "juju_evaluations"

\* get_evaluations called with no id on a store that holds evaluations.
C17_Witness ==
    /\ op = "get_evaluations"
    /\ args.message_ids = <<>>
    /\ evaluations # <<>>

DataLayerOps ==
    {"get_messages", "get_evaluations", "get_messages_with_evals",
     "get_flagged_messages", "get_metrics_summary", "get_daily_metrics"}

\* C20: when a store query of a data-layer function fails, the function
\* raises and returns no value, and it raises in no other case: a failed
\* fetch is never an empty frame or a zero summary.
C20_FailureRaises ==
    op \in DataLayerOps =>
        /\ (\E k \in DOMAIN qlog : ~qlog[k].ok) <=> ret.status = "raised"
        /\ ret.status = "raised" => ret = Raised /\ ~qlog[Len(qlog)].ok

\* The message query of get_messages failed on a store that holds messages.
C20_Witness ==
    /\ op = "get_messages"
    /\ ret.status = "raised"
    /\ messages # <<>>

(***************************************************************************)
(* Claims about get_messages_with_evals.                                   *)
(***************************************************************************)
BrowseReturned == op = "get_messages_with_evals" /\ ret.status = "ok"

\* Whether a criterion is supplied: "All" and "" stand for none.
TypeSupplied == TruthyName(args.question_type) /\ args.question_type # Some("All")
ComplexitySupplied == TruthyName(args.complexity) /\ args.complexity # Some("All")
NoCriteria ==
    ~Truthy(args.search) /\ ~TypeSupplied /\ ~ComplexitySupplied
        /\ ~args.high_risk_only

RECURSIVE IsSubsequence(_, _)
IsSubsequence(s, t) ==
    IF s = <<>> THEN TRUE
    ELSE IF t = <<>> THEN FALSE
    ELSE IF Head(s) = Head(t) THEN IsSubsequence(Tail(s), Tail(t))
    ELSE IsSubsequence(s, Tail(t))

\* The result of the call without criteria on the fetched page.
IdentityResult(page) ==
    BrowseOf(page, EvaluationFetch([i \in DOMAIN page |-> page[i].id]),
             None, None, None, FALSE)

\* The rows are those of a left join of the page: every message of the page
\* has a row, and one row for each of its evaluations, in the page's order.
IsLeftJoin(df, page) ==
    /\ \A i \in DOMAIN page :
         LET n == Cardinality({k \in DOMAIN evaluations :
                                  evaluations[k].message_id = page[i].id})
         IN Cardinality({k \in DOMAIN df : df[k].id = page[i].id})
                = IF n = 0 THEN 1 ELSE n
    /\ \A k \in DOMAIN df : \E i \in DOMAIN page : page[i].id = df[k].id
    /\ \A k \in 1..(Len(df) - 1) :
         /\ df[k].created_at >= df[k + 1].created_at
         /\ (CHOOSE i \in DOMAIN page : page[i].id = df[k].id)
              <= (CHOOSE i \in DOMAIN page : page[i].id = df[k + 1].id)

\* C18: without criteria get_messages_with_evals returns the left join of
\* the fetched page with its evaluations, every fetched message at least
\* once, in the order of the fetch, newest first; with criteria it returns
\* a subsequence of that result.
C18_FilterIsSubsequence ==
    BrowseReturned =>
        \E page \in MessagePages(args.limit, args.offset,
                                 args.start_date, args.end_date) :
            /\ IsLeftJoin(IdentityResult(page), page)
            /\ IsSubsequence(ret.value, IdentityResult(page))
            /\ NoCriteria => ret.value = IdentityResult(page)

\* A criterion that keeps some rows of a page and drops others.
C18_Witness ==
    /\ BrowseReturned
    /\ TypeSupplied
    /\ ret.value # <<>>
    /\ Len(ret.value) < Len(IdentityResult(
           CHOOSE page \in MessagePages(args.limit, args.offset,
                                        args.start_date, args.end_date) : TRUE))

\* Whether a returned row has an evaluation.
HasEval(r) == "message_id" \in DOMAIN r /\ r.message_id # NaN

\* C19: every row get_messages_with_evals returns satisfies every supplied
\* criterion: the search text is in the question or the response whatever
\* the case, question_type and complexity are equal to the arguments, the
\* topic is high-risk when high_risk_only is set; a message without an
\* evaluation is not returned when question_type, complexity or
\* high_risk_only is supplied, also when no message of the page has one.
C19_AllCriteria ==
    BrowseReturned =>
        \A k \in DOMAIN ret.value :
            LET r == ret.value[k]
            IN /\ Truthy(args.search) => SearchMask(r, Val(args.search))
               /\ TypeSupplied
                    => HasEval(r) /\ r.question_type = args.question_type
               /\ ComplexitySupplied
                    => HasEval(r) /\ r.question_complexity = args.complexity
               /\ args.high_risk_only
                    => HasEval(r) /\ EqTrue(r.is_high_risk_topic)

(***************************************************************************)
(* Claims about the threshold and the limit of get_flagged_messages.       *)
(***************************************************************************)
\* C21: a faithfulness threshold outside [0,1] is rejected before any store
\* query: get_flagged_messages called with such a threshold issues no query
\* and returns no flagged set, and so does the /flagged route.
C21_ThresholdRejected ==
    /\ (/\ op = "get_flagged_messages"
        /\ args.faithfulness_threshold \notin ThresholdMin..ThresholdMax)
         => qlog = <<>> /\ ret.status # "ok"
    /\ (/\ op = "flagged_page"
        /\ args.threshold \notin ThresholdMin..ThresholdMax)
         => qlog = <<>> /\ ret.status # "ok"

\* The in-range messages that have an evaluation the mask of the call
\* selects, as table positions.
FlaggedCandidates ==
    {i \in DOMAIN messages :
        /\ InRange(messages[i], args.start_date, args.end_date)
        /\ \E k \in DOMAIN evaluations :
             /\ evaluations[k].message_id = messages[i].id
             /\ FlagMask(evaluations[k], args.faithfulness_threshold)}
FlaggedEvalsOf(i) ==
    {k \in DOMAIN evaluations :
        /\ evaluations[k].message_id = messages[i].id
        /\ FlagMask(evaluations[k], args.faithfulness_threshold)}
ReturnedMessages ==
    {i \in DOMAIN messages : \E k \in DOMAIN ret.value : ret.value[k].id = messages[i].id}

\* C25: get_flagged_messages returns rows of at most `limit` messages, the
\* `limit` newest in-range messages that have a flagged evaluation (all of
\* them when they are fewer), one row for each flagged evaluation of a
\* returned message, so that the rows exceed `limit` only when a returned
\* message has several flagged evaluations.
C25_LimitCountsMessages ==
    FlaggedReturned =>
        LET rows == [i \in ReturnedMessages |-> Cardinality(FlaggedEvalsOf(i))]
        IN /\ ReturnedMessages \subseteq FlaggedCandidates
           /\ Cardinality(ReturnedMessages)
                = IF Cardinality(FlaggedCandidates) < args.limit
                  THEN Cardinality(FlaggedCandidates) ELSE args.limit
           /\ \A i \in FlaggedCandidates \ ReturnedMessages :
                \A j \in ReturnedMessages :
                    messages[i].created_at <= messages[j].created_at
           /\ Len(ret.value) = SumOver(ReturnedMessages, rows)
           /\ Len(ret.value) > args.limit
                => \E i \in ReturnedMessages : Cardinality(FlaggedEvalsOf(i)) > 1

\* limit 1, two candidates, and two rows of the one message returned.
C25_Witness ==
    /\ FlaggedReturned
    /\ args.limit = 1
    /\ Cardinality(FlaggedCandidates) = 2
    /\ Len(ret.value) = 2

(***************************************************************************)
(* Claims about the order of the fetches.                                  *)
(***************************************************************************)
JoinOps ==
    {"get_messages_with_evals", "get_metrics_summary", "get_daily_metrics",
     "get_flagged_messages"}

\* Whether `ids` are the ids of the messages the call fetched.
IdsOfMessageFetch(ids) ==
    IF op = "get_metrics_summary"
    THEN Range(ids) = {messages[i].id : i \in MessagesInRange}
    ELSE IF op = "get_daily_metrics"
    THEN Range(ids) = {messages[i].id : i \in DailyFetched}
    ELSE \E page \in MessagePages(args.limit, args.offset,
                                  args.start_date, args.end_date) :
            ids = [i \in DOMAIN page |-> page[i].id]

\* C22: in get_messages_with_evals, get_metrics_summary, get_daily_metrics
\* and get_flagged_messages the message fetch is first; the evaluation fetch
\* is issued only after it succeeded and only for the ids it returned; a
\* result is produced only after both succeeded; when the first fetch fails
\* the second is not issued and the call raises.
C22_MessageFetchFirst ==
    op \in JoinOps =>
        /\ qlog # <<>>
        /\ qlog[1].table = "juju_messages"
        /\ \A k \in DOMAIN qlog :
             qlog[k].table = "juju_evaluations" =>
                /\ k = 2
                /\ qlog[1].ok
                /\ qlog[k].ids # None
                /\ IdsOfMessageFetch(Val(qlog[k].ids))
        /\ ~qlog[1].ok => Len(qlog) = 1 /\ ret = Raised
        /\ ret.status = "ok" => \A k \in DOMAIN qlog : qlog[k].ok

\* C22 as amended: get_flagged_messages fetches the evaluations first and
\* then the messages whose ids the flagged evaluations name; the other three
\* fetch the messages first and then the evaluations of the fetched ids.  In
\* all four the second fetch is issued only after the first succeeded, a
\* result is produced only when every fetch issued succeeded, and when the
\* first fetch fails the second is not issued and the call raises.
C22_SecondFetchAfterFirst ==
    op \in JoinOps =>
        LET flagged == op = "get_flagged_messages"
        IN /\ Len(qlog) \in 1..2
           /\ qlog[1].table = IF flagged THEN "juju_evaluations" ELSE "juju_messages"
           /\ qlog[1].ids = None
           /\ Len(qlog) = 2 =>
                /\ qlog[1].ok
                /\ qlog[2].table = IF flagged THEN "juju_messages" ELSE "juju_evaluations"
                /\ qlog[2].ids # None
                /\ IF flagged
                   THEN Range(Val(qlog[2].ids))
                          = {evaluations[k].message_id :
                                k \in {j \in DOMAIN evaluations :
                                          FlagMask(evaluations[j],
                                                   args.faithfulness_threshold)}}
                   ELSE IdsOfMessageFetch(Val(qlog[2].ids))
           /\ ~qlog[1].ok => Len(qlog) = 1 /\ ret = Raised
           /\ ret.status = "ok" => \A k \in DOMAIN qlog : qlog[k].ok

\* get_flagged_messages issued both fetches and returned rows.
C22_Witness ==
    /\ op = "get_flagged_messages"
    /\ Len(qlog) = 2
    /\ ret.status = "ok"
    /\ ret.value # <<>>

(***************************************************************************)
(* Claims about the /metrics route.                                        *)
(***************************************************************************)
\* C23: for one store, clock and range (7d, 30d, 90d or all-time, as the
\* metrics page resolves it) the message_count of the buckets of
\* get_daily_metrics add up to the total_messages of get_metrics_summary,
\* also when a message has more than one evaluation.
C23_DailyCountsSumToTotal ==
    MetricsPageSucceeded =>
        SumSeq([k \in DOMAIN ret.value.daily_data |->
                   ret.value.daily_data[k].message_count])
            = ret.value.metrics.total_messages

\* The rows of a store with the column f equal to v, as table positions.
EvaluationsWith(f, v) == {k \in DOMAIN evaluations : evaluations[k][f] = Some(v)}
\* Whether `counts` gives, for each value of the column f in the store, the
\* number of evaluations of the store that have it.
CountsEveryEvaluation(counts, f) ==
    /\ DOMAIN counts
         = {Val(evaluations[k][f]) :
               k \in {j \in DOMAIN evaluations : ~IsNull(evaluations[j][f])}}
    /\ \A v \in DOMAIN counts : counts[v] = Cardinality(EvaluationsWith(f, v))

\* C24: get_question_type_distribution returns the same rows whatever
\* start_date and end_date are: one row for every evaluation of the store;
\* the question-type and complexity counts of the metrics page count every
\* evaluation of the store, those of messages outside the range included.
C24_DistributionIgnoresDates ==
    /\ (op = "get_question_type_distribution" /\ ret.status = "ok")
         => /\ Len(ret.value) = Len(evaluations)
            /\ \A k \in DOMAIN evaluations :
                 /\ ret.value[k].question_type = evaluations[k].question_type
                 /\ ret.value[k].question_complexity
                      = evaluations[k].question_complexity
                 /\ ret.value[k].is_high_risk_topic
                      = evaluations[k].is_high_risk_topic
    /\ MetricsPageSucceeded
         => /\ CountsEveryEvaluation(ret.value.type_counts, "question_type")
            /\ CountsEveryEvaluation(ret.value.complexity_counts,
                                     "question_complexity")

\* The page of the last 7 days counts the question type of an evaluation
\* whose message is older, beside a message of the range.
C24_Witness ==
    /\ MetricsPageSucceeded
    /\ args.range = "7d"
    /\ ret.value.metrics.total_messages > 0
    /\ \E k \in DOMAIN evaluations :
         /\ ~IsNull(evaluations[k].question_type)
         /\ \E i \in DOMAIN messages :
              /\ messages[i].id = evaluations[k].message_id
              /\ i \notin PageMessages
         /\ ret.value.type_counts[Val(evaluations[k].question_type)] > 0

\* Some query of the call failed.
StoreFailed == \E k \in DOMAIN qlog : ~qlog[k].ok
EmptyStore == messages = <<>> /\ evaluations = <<>>
ApiRoutes == {"api_metrics", "api_daily"}
HtmlRoutes == {"dashboard_home", "messages_page", "metrics_page", "flagged_page"}
\* The page rendered ret.value shows no data: zero metrics, no rows, zero
\* counts.
RendersNoData ==
    /\ op = "dashboard_home"
         => /\ ret.value.metrics.total_messages = 0
            /\ ret.value.metrics.messages_today = 0
            /\ ret.value.metrics.avg_response_time_ms = Some(0)
            /\ ret.value.metrics.avg_faithfulness = Some(0)
            /\ ret.value.metrics.hallucination_rate = Some(0)
    /\ op = "messages_page" => ret.value.messages = <<>>
    /\ op = "metrics_page"
         => /\ ret.value.metrics.total_messages = 0
            /\ ret.value.metrics.messages_today = 0
            /\ ret.value.metrics.avg_response_time_ms = Some(0)
            /\ ret.value.metrics.avg_faithfulness = Some(0)
            /\ ret.value.metrics.hallucination_rate = Some(0)
            /\ ret.value.daily_data = <<>>
            /\ ret.value.type_counts = <<>>
            /\ ret.value.complexity_counts = <<>>
    /\ op = "flagged_page"
         => /\ ret.value.flagged = <<>>
            /\ ret.value.halluc_count = 0
            /\ ret.value.cap_halluc_count = 0
            /\ ret.value.low_faith_count = 0
            /\ ret.value.bad_citation_count = 0

\* C26: /api/metrics and /api/daily answer a failed store query with status
\* 500 and an error body, never with status 200; /, /messages, /metrics and
\* /flagged answer a failed store query with the page they render for an
\* empty store, the one that shows no data.
C26_FailureAnswers ==
    /\ (op \in ApiRoutes /\ StoreFailed)
         => /\ ret.value.status_code = 500
            /\ DOMAIN ret.value.body = {"error"}
    /\ (op \in HtmlRoutes /\ StoreFailed)
         => ret.status = "ok" /\ RendersNoData
    /\ (op \in HtmlRoutes /\ EmptyStore /\ ~StoreFailed /\ ret.status = "ok")
         => RendersNoData

\* /api/metrics answers 500 when the evaluation query fails on a store whose
\* summary it answers with 200 otherwise.
C26_Witness ==
    /\ op = "api_metrics"
    /\ Len(qlog) = 2
    /\ ~qlog[2].ok
    /\ ret.value.status_code = 500
    /\ \E o \in ApiMetricsOutcomes(args.range, 0) : o.ret.value.status_code = 200
====
